---- MODULE Spec2Model ----
(***************************************************************************)
(* State-machine model of the OR-Tools C wrapper                           *)
(* (converge-optimization/ortools-sys/wrapper.cc, wrapper.h).              *)
(*                                                                         *)
(* The wrapper keeps, per discrete model, a sat::CpModelBuilder and a      *)
(* vector of IntVar; per discrete result, the engine's response and a copy *)
(* of the compiled model; per linear model, an MPSolver and two vectors of *)
(* pointers (variables, constraints).  The engines themselves are external *)
(* libraries: their calls are modelled by their documented contract        *)
(* (CP-SAT: exhaustive search over finite domains, cut short by a time     *)
(* limit; MPSolver: a result status out of its enumeration).               *)
(***************************************************************************)
EXTENDS Integers, Sequences, FiniteSets, TLC

VARIABLES
    cp_state,      \* "none" before cpmodel_new, "open" afterwards, "freed" after cpmodel_free
    cp_builder,    \* CpModelBuilder::builder : the model under construction
    cp_vars,       \* CpModelBuilder::vars    : IntVar objects (their index)
    cp_returned,   \* the variable-creating calls so far: arguments and returned handle
    cp_responses,  \* the CpSolverResponse objects returned by cpmodel_solve
    cp_released,   \* positions in cp_responses of the results handed to cpresponse_free
    cp_other,      \* a second discrete model of the same client, with its results
    lp_state,      \* "none" before mpsolver_new, "open" afterwards, "freed" after mpsolver_free
    lp_solver,     \* MpSolver::solver      : the MPSolver and what it owns
    lp_variables,  \* MpSolver::variables   : MPVariable* (the variable's index)
    lp_constraints,\* MpSolver::constraints : MPConstraint* (the row's index)
    lp_returned,   \* what the linear calls returned so far (handles, last status)
    lp_requested,  \* the solver_type handed to mpsolver_new, in a sequence of length <= 1
    undefined,     \* TRUE once a call was made on a released object
    native_in,     \* status normalizers alone: the native codes handed in
    status_out     \* status normalizers alone: the shared statuses returned

cp_all == <<cp_state, cp_builder, cp_vars, cp_returned, cp_responses, cp_released>>
lp_all == <<lp_state, lp_solver, lp_variables, lp_constraints, lp_returned, lp_requested>>
norm_all == <<native_in, status_out>>
vars == <<cp_all, cp_other, lp_all, norm_all, undefined>>

----------------------------------------------------------------------------
(* What the engine can report as elapsed time (two values for a model's first
   solve, one for the solves after it), and the time limits tried *)

WallTimes == IF cp_responses = <<>> THEN {0, 1} ELSE {1}
TimeLimits == {-1, 0, 1}

----------------------------------------------------------------------------
(* Shared status vocabulary, wrapper.h *)

ORTOOLS_STATUS_UNKNOWN == 0
ORTOOLS_STATUS_OPTIMAL == 1
ORTOOLS_STATUS_FEASIBLE == 2
ORTOOLS_STATUS_INFEASIBLE == 3
ORTOOLS_STATUS_UNBOUNDED == 4
ORTOOLS_STATUS_MODEL_INVALID == 5
ORTOOLS_STATUS_ERROR == 6

(* Native result codes of the two engines.  "UNRECOGNIZED" stands for any   *)
(* integer outside the engine's enumeration (the switches take any value). *)

CpNativeCodes == {"UNKNOWN", "MODEL_INVALID", "FEASIBLE", "INFEASIBLE",
                  "OPTIMAL", "UNRECOGNIZED"}

\* (mutant) the INFEASIBLE case left out of the switch
convert_cp_status_short(status) ==
    CASE status = "OPTIMAL"       -> ORTOOLS_STATUS_OPTIMAL
      [] status = "FEASIBLE"      -> ORTOOLS_STATUS_FEASIBLE
      [] status = "MODEL_INVALID" -> ORTOOLS_STATUS_MODEL_INVALID
      [] OTHER                    -> ORTOOLS_STATUS_UNKNOWN

convert_cp_status(status) ==
    CASE status = "OPTIMAL"       -> ORTOOLS_STATUS_OPTIMAL
      [] status = "FEASIBLE"      -> ORTOOLS_STATUS_FEASIBLE
      [] status = "INFEASIBLE"    -> ORTOOLS_STATUS_INFEASIBLE
      [] status = "MODEL_INVALID" -> ORTOOLS_STATUS_MODEL_INVALID
      [] OTHER                    -> ORTOOLS_STATUS_UNKNOWN

MpNativeCodes == {"OPTIMAL", "FEASIBLE", "INFEASIBLE", "UNBOUNDED", "ABNORMAL",
                  "MODEL_INVALID", "NOT_SOLVED", "UNRECOGNIZED"}

\* (mutant) the linear engine's MODEL_INVALID passed through under its own name
convert_lp_status_invalid(status) ==
    CASE status = "OPTIMAL"       -> ORTOOLS_STATUS_OPTIMAL
      [] status = "FEASIBLE"      -> ORTOOLS_STATUS_FEASIBLE
      [] status = "INFEASIBLE"    -> ORTOOLS_STATUS_INFEASIBLE
      [] status = "UNBOUNDED"     -> ORTOOLS_STATUS_UNBOUNDED
      [] status = "MODEL_INVALID" -> ORTOOLS_STATUS_MODEL_INVALID
      [] OTHER                    -> ORTOOLS_STATUS_ERROR

convert_lp_status(status) ==
    CASE status = "OPTIMAL"    -> ORTOOLS_STATUS_OPTIMAL
      [] status = "FEASIBLE"   -> ORTOOLS_STATUS_FEASIBLE
      [] status = "INFEASIBLE" -> ORTOOLS_STATUS_INFEASIBLE
      [] status = "UNBOUNDED"  -> ORTOOLS_STATUS_UNBOUNDED
      [] OTHER                 -> ORTOOLS_STATUS_ERROR

----------------------------------------------------------------------------
(* Linear expressions of the discrete engine *)

\* sat::LinearExpr: the terms in the order they were added
EmptyExpr == [vars |-> <<>>, coeffs |-> <<>>]

RECURSIVE build_linear_expr_from(_, _, _, _, _)
build_linear_expr_from(mvars, var_indices, coeffs, i, expr) ==
    IF i > Len(var_indices) THEN expr
    ELSE build_linear_expr_from(mvars, var_indices, coeffs, i + 1,
            [vars   |-> Append(expr.vars, mvars[var_indices[i] + 1]),
             coeffs |-> Append(expr.coeffs, coeffs[i])])

\* (mutant) a handle met again replaces its earlier term instead of adding one
build_linear_expr_overwriting(mvars, var_indices, coeffs) ==
    LET keep == {i \in 1..Len(var_indices) :
                    \A j \in (i + 1)..Len(var_indices) : var_indices[j] # var_indices[i]}
        pick[k \in 0..Len(var_indices)] ==
            IF k = 0 THEN EmptyExpr
            ELSE IF k \in keep
                 THEN [vars   |-> Append(pick[k - 1].vars, mvars[var_indices[k] + 1]),
                       coeffs |-> Append(pick[k - 1].coeffs, coeffs[k])]
                 ELSE pick[k - 1]
    IN  pick[Len(var_indices)]

build_linear_expr(mvars, var_indices, coeffs) ==
    build_linear_expr_from(mvars, var_indices, coeffs, 1, EmptyExpr)

\* value of an expression under an assignment (indexed by variable index)
RECURSIVE ExprValueFrom(_, _, _)
ExprValueFrom(expr, sol, i) ==
    IF i > Len(expr.vars) THEN 0
    ELSE expr.coeffs[i] * sol[expr.vars[i] + 1] + ExprValueFrom(expr, sol, i + 1)

ExprValue(expr, sol) == ExprValueFrom(expr, sol, 1)

----------------------------------------------------------------------------
(* The discrete engine: sat::SolveWithParameters on a compiled model *)

NoObjective == [set |-> FALSE, maximize |-> FALSE, expr |-> EmptyExpr]

EmptyModel == [variables |-> <<>>, constraints |-> <<>>, objective |-> NoObjective]

ModelValid(m) == \A i \in 1..Len(m.variables) : m.variables[i].lb <= m.variables[i].ub

Assignments(m) ==
    LET n == Len(m.variables)
        all == UNION {m.variables[i].lb .. m.variables[i].ub : i \in 1..n}
    IN  {a \in [1..n -> all] :
            \A i \in 1..n : a[i] \in m.variables[i].lb .. m.variables[i].ub}

\* (mutant) an all-different constraint that constrains nothing
SatisfiesButAllDifferent(c, a) ==
    CASE c.kind = "le" -> ExprValue(c.expr, a) <= c.rhs
      [] c.kind = "ge" -> ExprValue(c.expr, a) >= c.rhs
      [] c.kind = "eq" -> ExprValue(c.expr, a) = c.rhs
      [] c.kind = "all_different" -> TRUE

Satisfies(c, a) ==
    CASE c.kind = "le" -> ExprValue(c.expr, a) <= c.rhs
      [] c.kind = "ge" -> ExprValue(c.expr, a) >= c.rhs
      [] c.kind = "eq" -> ExprValue(c.expr, a) = c.rhs
      [] c.kind = "all_different" ->
            \A i, j \in 1..Len(c.expr.vars) :
                i < j => a[c.expr.vars[i] + 1] # a[c.expr.vars[j] + 1]

Feasible(m) ==
    {a \in Assignments(m) : \A k \in 1..Len(m.constraints) : Satisfies(m.constraints[k], a)}

ObjectiveOf(m, a) == IF m.objective.set THEN ExprValue(m.objective.expr, a) ELSE 0

Better(m, x, y) == IF m.objective.maximize THEN x >= y ELSE x <= y

\* (mutant) any feasible assignment passed off as a best one
OptimalOrNot(m) == Feasible(m)

Optimal(m) ==
    {a \in Feasible(m) : \A b \in Feasible(m) : Better(m, ObjectiveOf(m, a), ObjectiveOf(m, b))}

NoSolution(status) == [status |-> status, objective_value |-> 0, solution |-> <<>>]

\* the responses the engine can give; `limited` is whether max_time_in_seconds was set
SolveWithParameters(m, limited) ==
    IF ~ModelValid(m) THEN {NoSolution("MODEL_INVALID")}
    ELSE IF Feasible(m) = {}
         THEN {NoSolution("INFEASIBLE")}
              \cup (IF limited THEN {NoSolution("UNKNOWN")} ELSE {})
    ELSE {[status |-> "OPTIMAL", objective_value |-> ObjectiveOf(m, a), solution |-> a] :
             a \in Optimal(m)}
         \cup (IF limited
               THEN {NoSolution("UNKNOWN")}
                    \cup {[status |-> "FEASIBLE", objective_value |-> ObjectiveOf(m, a),
                           solution |-> a] : a \in Feasible(m)}
               ELSE {})

----------------------------------------------------------------------------
(* Initial state: nothing constructed *)

\* a CpModelBuilder handle not yet created, as one value
NoModel == [state |-> "none", builder |-> EmptyModel, vars |-> <<>>,
            returned |-> <<>>, responses |-> <<>>]

CpInit ==
    /\ cp_state = "none"
    /\ cp_builder = EmptyModel
    /\ cp_vars = <<>>
    /\ cp_returned = <<>>
    /\ cp_responses = <<>>
    /\ cp_released = {}
    /\ cp_other = NoModel

\* solution: the solution the solver hands out, <<>> while it has none that is
\* synchronized with the model
NoSolver == [problem_type |-> "none", variables |-> <<>>, constraints |-> <<>>,
             objective |-> [maximize |-> FALSE, coeffs |-> <<>>],
             result_status |-> "NOT_SOLVED", solution |-> <<>>]

\* status: the value of the latest mpsolver_solve call, in a sequence of length <= 1
NothingReturned == [vars |-> <<>>, cons |-> <<>>, status |-> <<>>]

LpInit ==
    /\ lp_state = "none"
    /\ lp_solver = NoSolver
    /\ lp_variables = <<>>
    /\ lp_constraints = <<>>
    /\ lp_returned = NothingReturned
    /\ lp_requested = <<>>

NormIdle ==
    /\ native_in = [cp |-> "UNKNOWN", lp |-> "NOT_SOLVED"]
    /\ status_out = [cp |-> <<>>, lp |-> <<>>]

\* no call has been made on a released object
Defined == undefined = FALSE

Init == CpInit /\ LpInit /\ NormIdle /\ Defined

----------------------------------------------------------------------------
(* Discrete model builder.  Handles passed in are handles this model has   *)
(* issued and the two argument arrays have equal length (anything else is  *)
(* an unchecked out-of-range read in the wrapper).  Names have no effect   *)
(* on solving and are left out.                                            *)

cpmodel_new ==
    /\ cp_state = "none"
    /\ cp_state' = "open"
    /\ cp_builder' = EmptyModel
    /\ cp_vars' = <<>>
    /\ UNCHANGED <<cp_returned, cp_responses, cp_released, cp_other, lp_all, norm_all, undefined>>

\* (mutant) a domain one value too wide at the top
NewIntVarWide(b, lb, ub) ==
    [b EXCEPT !.variables = Append(@, [lb |-> lb, ub |-> ub + 1])]

\* builder.NewIntVar(Domain(lb, ub)): appends a variable with that domain
NewIntVar(b, lb, ub) ==
    [b EXCEPT !.variables = Append(@, [lb |-> lb, ub |-> ub])]

\* builder.NewBoolVar(): appends a variable with domain [0, 1]
NewBoolVar(b) ==
    [b EXCEPT !.variables = Append(@, [lb |-> 0, ub |-> 1])]

\* (mutant) variable indices of the compiled model counted from one
IntVarIndexFromOne(b) == Len(b.variables) + 1

\* the index the IntVar returned by NewIntVar / NewBoolVar refers to
IntVarIndex(b) == Len(b.variables)

\* (mutant) one handle counter for all the models of the process
NextIndexOfProcess(vec) == Len(cp_vars) + Len(cp_other.vars) + Len(lp_variables)

\* (mutant) the size taken after the push_back
NextIndexAfterPush(vec) == Len(vec) + 1

\* idx = static_cast<int32_t>(vec.size()), taken before the push_back
NextIndex(vec) == Len(vec)

cpmodel_new_int_var(lb, ub) ==
    /\ cp_state = "open"
    /\ cp_builder' = NewIntVar(cp_builder, lb, ub)
    /\ cp_vars' = Append(cp_vars, IntVarIndex(cp_builder))
    /\ cp_returned' = Append(cp_returned, [idx |-> NextIndex(cp_vars), lb |-> lb, ub |-> ub])
    /\ UNCHANGED <<cp_state, cp_responses, cp_released, cp_other, lp_all, norm_all, undefined>>

cpmodel_new_bool_var ==
    /\ cp_state = "open"
    /\ cp_builder' = NewBoolVar(cp_builder)
    /\ cp_vars' = Append(cp_vars, IntVarIndex(cp_builder))
    /\ cp_returned' = Append(cp_returned, [idx |-> NextIndex(cp_vars), lb |-> 0, ub |-> 1])
    /\ UNCHANGED <<cp_state, cp_responses, cp_released, cp_other, lp_all, norm_all, undefined>>

\* builder.AddLessOrEqual / AddGreaterOrEqual / AddEquality / AddAllDifferent
AddConstraint(b, kind, expr, rhs) ==
    [b EXCEPT !.constraints = Append(@, [kind |-> kind, expr |-> expr, rhs |-> rhs])]

cpmodel_add_linear_le(var_indices, coeffs, rhs) ==
    /\ cp_state = "open"
    /\ cp_builder' = AddConstraint(cp_builder, "le",
                        build_linear_expr(cp_vars, var_indices, coeffs), rhs)
    /\ UNCHANGED <<cp_state, cp_vars, cp_returned, cp_responses, cp_released, cp_other, lp_all, norm_all, undefined>>

cpmodel_add_linear_ge(var_indices, coeffs, rhs) ==
    /\ cp_state = "open"
    /\ cp_builder' = AddConstraint(cp_builder, "ge",
                        build_linear_expr(cp_vars, var_indices, coeffs), rhs)
    /\ UNCHANGED <<cp_state, cp_vars, cp_returned, cp_responses, cp_released, cp_other, lp_all, norm_all, undefined>>

cpmodel_add_linear_eq(var_indices, coeffs, rhs) ==
    /\ cp_state = "open"
    /\ cp_builder' = AddConstraint(cp_builder, "eq",
                        build_linear_expr(cp_vars, var_indices, coeffs), rhs)
    /\ UNCHANGED <<cp_state, cp_vars, cp_returned, cp_responses, cp_released, cp_other, lp_all, norm_all, undefined>>

cpmodel_add_all_different(var_indices) ==
    /\ cp_state = "open"
    /\ cp_builder' = AddConstraint(cp_builder, "all_different",
                        [vars   |-> [i \in 1..Len(var_indices) |-> cp_vars[var_indices[i] + 1]],
                         coeffs |-> [i \in 1..Len(var_indices) |-> 1]], 0)
    /\ UNCHANGED <<cp_state, cp_vars, cp_returned, cp_responses, cp_released, cp_other, lp_all, norm_all, undefined>>

\* builder.Minimize / Maximize: the objective is cleared, then filled from expr
\* (mutant) the new terms added to the objective already there
SetObjectiveAdding(b, maximize, expr) ==
    [b EXCEPT !.objective = [set |-> TRUE, maximize |-> maximize,
                             expr |-> [vars   |-> @.expr.vars \o expr.vars,
                                       coeffs |-> @.expr.coeffs \o expr.coeffs]]]

SetObjective(b, maximize, expr) ==
    [b EXCEPT !.objective = [set |-> TRUE, maximize |-> maximize, expr |-> expr]]

cpmodel_minimize(var_indices, coeffs) ==
    /\ cp_state = "open"
    /\ cp_builder' = SetObjective(cp_builder, FALSE,
                        build_linear_expr(cp_vars, var_indices, coeffs))
    /\ UNCHANGED <<cp_state, cp_vars, cp_returned, cp_responses, cp_released, cp_other, lp_all, norm_all, undefined>>

cpmodel_maximize(var_indices, coeffs) ==
    /\ cp_state = "open"
    /\ cp_builder' = SetObjective(cp_builder, TRUE,
                        build_linear_expr(cp_vars, var_indices, coeffs))
    /\ UNCHANGED <<cp_state, cp_vars, cp_returned, cp_responses, cp_released, cp_other, lp_all, norm_all, undefined>>

\* (mutant) a limit of zero seconds is handed to the engine as well
TimeLimitedFromZero(time_limit_seconds) == time_limit_seconds >= 0

\* if (time_limit_seconds > 0) params.set_max_time_in_seconds(...)
TimeLimited(time_limit_seconds) == time_limit_seconds > 0

\* static_cast<int64_t>(double): truncation; exact on the integral values
\* an integer objective takes
ToInt64(d) == d

\* new CpSolverResponse(): model = builder.Build(), response = Solve...(model)
NewResponse(model, limited) ==
    {[response |-> [status |-> r.status, objective_value |-> r.objective_value,
                    solution |-> r.solution, wall_time |-> w],
      model |-> model] :
        r \in SolveWithParameters(model, limited), w \in WallTimes}

\* (mutant) one response object reused by every solve
cpmodel_solve_shared(time_limit_seconds) ==
    /\ cp_state = "open"
    /\ \E result \in NewResponse(cp_builder, TimeLimited(time_limit_seconds)) :
          cp_responses' = [i \in 1..(Len(cp_responses) + 1) |-> result]
    /\ UNCHANGED <<cp_state, cp_builder, cp_vars, cp_returned, cp_released, cp_other, lp_all, norm_all, undefined>>

\* (mutant) solving closes the builder
cpmodel_solve_closing(time_limit_seconds) ==
    /\ cp_state = "open"
    /\ \E result \in NewResponse(cp_builder, TimeLimited(time_limit_seconds)) :
          cp_responses' = Append(cp_responses, result)
    /\ cp_state' = "solved"
    /\ UNCHANGED <<cp_builder, cp_vars, cp_returned, cp_released, cp_other, lp_all, norm_all, undefined>>

cpmodel_solve(time_limit_seconds) ==
    /\ cp_state = "open"
    /\ \E result \in NewResponse(cp_builder, TimeLimited(time_limit_seconds)) :
          cp_responses' = Append(cp_responses, result)
    /\ UNCHANGED <<cp_state, cp_builder, cp_vars, cp_returned, cp_released, cp_other, lp_all, norm_all, undefined>>

(* The same functions called with the client's second CpModelBuilder:   *)
(* each works on the object it is given, here cp_other                 *)

OtherUntouched == UNCHANGED <<cp_all, lp_all, norm_all, undefined>>

cpmodel_new_other ==
    /\ cp_other.state = "none"
    /\ cp_other' = [NoModel EXCEPT !.state = "open"]
    /\ OtherUntouched

cpmodel_new_int_var_other(lb, ub) ==
    /\ cp_other.state = "open"
    /\ cp_other' = [cp_other EXCEPT
                      !.builder = NewIntVar(@, lb, ub),
                      !.vars = Append(@, IntVarIndex(cp_other.builder)),
                      !.returned = Append(@, [idx |-> NextIndex(cp_other.vars),
                                              lb |-> lb, ub |-> ub])]
    /\ OtherUntouched

cpmodel_add_linear_le_other(var_indices, coeffs, rhs) ==
    /\ cp_other.state = "open"
    /\ cp_other' = [cp_other EXCEPT
                      !.builder = AddConstraint(@, "le",
                                     build_linear_expr(cp_other.vars, var_indices, coeffs), rhs)]
    /\ OtherUntouched

cpmodel_maximize_other(var_indices, coeffs) ==
    /\ cp_other.state = "open"
    /\ cp_other' = [cp_other EXCEPT
                      !.builder = SetObjective(@, TRUE,
                                     build_linear_expr(cp_other.vars, var_indices, coeffs))]
    /\ OtherUntouched

cpmodel_solve_other(time_limit_seconds) ==
    /\ cp_other.state = "open"
    /\ \E result \in NewResponse(cp_other.builder, TimeLimited(time_limit_seconds)) :
          cp_other' = [cp_other EXCEPT !.responses = Append(@, result)]
    /\ OtherUntouched

(* Discrete result accessors *)

cpresponse_status(r) == convert_cp_status(r.response.status)
\* (mutant) the sign of the objective lost
cpresponse_objective_value_negated(r) == ToInt64(0 - r.response.objective_value)

cpresponse_objective_value(r) == ToInt64(r.response.objective_value)
cpresponse_value(r, var_index) == r.response.solution[var_index + 1]
cpresponse_wall_time(r) == r.response.wall_time

----------------------------------------------------------------------------
(* Linear / MIP model builder *)

\* OrtoolsLpSolverType of wrapper.h
ORTOOLS_LP_GLOP == 0
ORTOOLS_LP_CLP == 1
ORTOOLS_MIP_CBC == 2
ORTOOLS_MIP_SCIP == 3

\* (mutant) a switch whose default falls into the last case
ProblemTypeLastByDefault(solver_type) ==
    CASE solver_type = ORTOOLS_LP_GLOP  -> "GLOP_LINEAR_PROGRAMMING"
      [] solver_type = ORTOOLS_LP_CLP   -> "CLP_LINEAR_PROGRAMMING"
      [] solver_type = ORTOOLS_MIP_CBC  -> "CBC_MIXED_INTEGER_PROGRAMMING"
      [] OTHER                          -> "SCIP_MIXED_INTEGER_PROGRAMMING"

\* the switch of mpsolver_new
ProblemType(solver_type) ==
    CASE solver_type = ORTOOLS_LP_GLOP  -> "GLOP_LINEAR_PROGRAMMING"
      [] solver_type = ORTOOLS_LP_CLP   -> "CLP_LINEAR_PROGRAMMING"
      [] solver_type = ORTOOLS_MIP_CBC  -> "CBC_MIXED_INTEGER_PROGRAMMING"
      [] solver_type = ORTOOLS_MIP_SCIP -> "SCIP_MIXED_INTEGER_PROGRAMMING"
      [] OTHER                          -> "GLOP_LINEAR_PROGRAMMING"

mpsolver_new(solver_type) ==
    /\ lp_state = "none"
    /\ lp_state' = "open"
    /\ lp_solver' = [NoSolver EXCEPT !.problem_type = ProblemType(solver_type)]
    /\ lp_variables' = <<>>
    /\ lp_constraints' = <<>>
    /\ lp_requested' = <<solver_type>>
    /\ UNCHANGED <<lp_returned, cp_all, cp_other, norm_all, undefined>>

\* every change of the model after a Solve() leaves the solver without a
\* synchronized solution (MPSolver hands a solution out only while the model
\* is as it was solved)
Unsynchronized(sv) == [sv EXCEPT !.solution = <<>>]

\* MPSolver::MakeNumVar / MakeIntVar / MakeBoolVar: the solver owns the variable
MakeVar(sv, lb, ub, integer) ==
    Unsynchronized([sv EXCEPT !.variables =
                        Append(@, [lb |-> lb, ub |-> ub, integer |-> integer])])

\* the index of the variable (row) a Make... call on sv returns a pointer to
MadeVar(sv) == Len(sv.variables)
MadeRow(sv) == Len(sv.constraints)

mpsolver_num_var(lb, ub) ==
    /\ lp_state = "open"
    /\ lp_solver' = MakeVar(lp_solver, lb, ub, FALSE)
    /\ lp_variables' = Append(lp_variables, MadeVar(lp_solver))
    /\ lp_returned' = [lp_returned EXCEPT !.vars = Append(@, NextIndex(lp_variables))]
    /\ UNCHANGED <<lp_state, lp_constraints, lp_requested, cp_all, cp_other, norm_all, undefined>>

mpsolver_int_var(lb, ub) ==
    /\ lp_state = "open"
    /\ lp_solver' = MakeVar(lp_solver, lb, ub, TRUE)
    /\ lp_variables' = Append(lp_variables, MadeVar(lp_solver))
    /\ lp_returned' = [lp_returned EXCEPT !.vars = Append(@, NextIndex(lp_variables))]
    /\ UNCHANGED <<lp_state, lp_constraints, lp_requested, cp_all, cp_other, norm_all, undefined>>

mpsolver_bool_var ==
    /\ lp_state = "open"
    /\ lp_solver' = MakeVar(lp_solver, 0, 1, TRUE)
    /\ lp_variables' = Append(lp_variables, MadeVar(lp_solver))
    /\ lp_returned' = [lp_returned EXCEPT !.vars = Append(@, NextIndex(lp_variables))]
    /\ UNCHANGED <<lp_state, lp_constraints, lp_requested, cp_all, cp_other, norm_all, undefined>>

\* MPSolver::MakeRowConstraint(lb, ub): a row with no coefficient
MakeRowConstraint(sv, lb, ub) ==
    Unsynchronized([sv EXCEPT !.constraints =
                        Append(@, [lb |-> lb, ub |-> ub, coeffs |-> <<>>])])

mpsolver_add_constraint(lb, ub) ==
    /\ lp_state = "open"
    /\ lp_solver' = MakeRowConstraint(lp_solver, lb, ub)
    /\ lp_constraints' = Append(lp_constraints, MadeRow(lp_solver))
    /\ lp_returned' = [lp_returned EXCEPT !.cons = Append(@, NextIndex(lp_constraints))]
    /\ UNCHANGED <<lp_state, lp_variables, lp_requested, cp_all, cp_other, norm_all, undefined>>

\* MPConstraint / MPObjective ::SetCoefficient(var, coeff) on a coefficient map:
\* a zero for a variable without entry stores nothing, anything else is stored
\* in the variable's one entry
\* (mutant) the coefficient added to the one already there
SetCoefficientAdding(map, var, coeff) ==
    [x \in (DOMAIN map) \cup {var} |->
        IF x = var THEN (IF var \in DOMAIN map THEN map[var] ELSE 0) + coeff ELSE map[x]]

SetCoefficient(map, var, coeff) ==
    IF coeff = 0 /\ var \notin DOMAIN map THEN map
    ELSE [x \in (DOMAIN map) \cup {var} |-> IF x = var THEN coeff ELSE map[x]]

\* ::GetCoefficient(var)
GetCoefficient(map, var) == IF var \in DOMAIN map THEN map[var] ELSE 0

\* a SetCoefficient call that stores nothing does not reach the backend
StoresNothing(map, var, coeff) == SetCoefficient(map, var, coeff) = map /\ coeff = 0

\* MPConstraint::SetCoefficient on row `row` of the solver
SetRowCoefficient(sv, row, var, coeff) ==
    LET set == [sv EXCEPT !.constraints[row + 1].coeffs = SetCoefficient(@, var, coeff)]
    IN  IF StoresNothing(sv.constraints[row + 1].coeffs, var, coeff)
        THEN set ELSE Unsynchronized(set)

\* MPObjective::SetCoefficient
SetObjectiveCoefficient(sv, var, coeff) ==
    LET set == [sv EXCEPT !.objective.coeffs = SetCoefficient(@, var, coeff)]
    IN  IF StoresNothing(sv.objective.coeffs, var, coeff)
        THEN set ELSE Unsynchronized(set)

\* (mutant) setting the direction starts the objective afresh
SetOptimizationDirectionClearing(sv, maximize) ==
    Unsynchronized([sv EXCEPT !.objective = [maximize |-> maximize, coeffs |-> <<>>]])

\* MPObjective::SetMinimization / SetMaximization
SetOptimizationDirection(sv, maximize) ==
    Unsynchronized([sv EXCEPT !.objective.maximize = maximize])

mpsolver_set_constraint_coeff(constraint_idx, var_idx, coeff) ==
    /\ lp_state = "open"
    /\ lp_solver' = SetRowCoefficient(lp_solver, lp_constraints[constraint_idx + 1],
                                       lp_variables[var_idx + 1], coeff)
    /\ UNCHANGED <<lp_state, lp_variables, lp_constraints, lp_returned, lp_requested, cp_all, cp_other, norm_all, undefined>>

mpsolver_set_objective_coeff(var_idx, coeff) ==
    /\ lp_state = "open"
    /\ lp_solver' = SetObjectiveCoefficient(lp_solver, lp_variables[var_idx + 1], coeff)
    /\ UNCHANGED <<lp_state, lp_variables, lp_constraints, lp_returned, lp_requested, cp_all, cp_other, norm_all, undefined>>

mpsolver_minimize ==
    /\ lp_state = "open"
    /\ lp_solver' = SetOptimizationDirection(lp_solver, FALSE)
    /\ UNCHANGED <<lp_state, lp_variables, lp_constraints, lp_returned, lp_requested, cp_all, cp_other, norm_all, undefined>>

mpsolver_maximize ==
    /\ lp_state = "open"
    /\ lp_solver' = SetOptimizationDirection(lp_solver, TRUE)
    /\ UNCHANGED <<lp_state, lp_variables, lp_constraints, lp_returned, lp_requested, cp_all, cp_other, norm_all, undefined>>

\* The linear engine on the models explored (every variable bounded, bounds and
\* coefficients such that the vertices of the feasible region are integral):
\* the points of the box, those within every row's interval, the best of them
LpPoints(sv) ==
    LET n == Len(sv.variables)
        all == UNION {sv.variables[i].lb .. sv.variables[i].ub : i \in 1..n}
    IN  {a \in [1..n -> all] :
            \A i \in 1..n : a[i] \in sv.variables[i].lb .. sv.variables[i].ub}

\* sum of map[v] * a[v + 1] over the entries v of a coefficient map
RECURSIVE LinearValue(_, _, _)
LinearValue(map, a, todo) ==
    IF todo = {} THEN 0
    ELSE LET v == CHOOSE x \in todo : TRUE
         IN  map[v] * a[v + 1] + LinearValue(map, a, todo \ {v})

RowValue(row, a) == LinearValue(row.coeffs, a, DOMAIN row.coeffs)

LpFeasible(sv) ==
    {a \in LpPoints(sv) :
        \A r \in 1..Len(sv.constraints) :
            /\ sv.constraints[r].lb <= RowValue(sv.constraints[r], a)
            /\ RowValue(sv.constraints[r], a) <= sv.constraints[r].ub}

LpObjective(sv, a) == LinearValue(sv.objective.coeffs, a, DOMAIN sv.objective.coeffs)

LpOptimal(sv) ==
    {a \in LpFeasible(sv) :
        \A b \in LpFeasible(sv) :
            IF sv.objective.maximize
            THEN LpObjective(sv, a) >= LpObjective(sv, b)
            ELSE LpObjective(sv, a) <= LpObjective(sv, b)}

\* (mutant) a solve that keeps the solution of an earlier solve
KeepEarlierSolution(sv, result) ==
    [sv EXCEPT !.result_status = result.status,
               !.solution = IF @ # <<>> THEN @ ELSE result.solution]

\* MPSolver::Solve(): what the backend reports.  Besides the answer to the
\* model, a backend can fail to take the model (MODEL_INVALID), fail while
\* solving (ABNORMAL) or not solve at all (NOT_SOLVED); none of these leaves
\* a solution.
SolveResults(sv) ==
    {[status |-> st, solution |-> <<>>] : st \in {"ABNORMAL", "MODEL_INVALID", "NOT_SOLVED"}}
    \cup (IF LpFeasible(sv) = {}
          THEN {[status |-> "INFEASIBLE", solution |-> <<>>]}
          ELSE {[status |-> "OPTIMAL",
                 solution |-> <<[objective_value |-> LpObjective(sv, a), values |-> a]>>] :
                    a \in LpOptimal(sv)})

\* the solver after Solve() reported `result`: its one result, replaced
Solved(sv, result) ==
    [sv EXCEPT !.result_status = result.status, !.solution = result.solution]

mpsolver_solve ==
    /\ lp_state = "open"
    /\ \E result \in SolveResults(lp_solver) :
          /\ lp_solver' = Solved(lp_solver, result)
          /\ lp_returned' = [lp_returned EXCEPT
                                !.status = <<convert_lp_status(result.status)>>]
    /\ UNCHANGED <<lp_state, lp_variables, lp_constraints, lp_requested, cp_all, cp_other, norm_all, undefined>>

\* MPObjective::Value() / MPVariable::solution_value(): of the synchronized
\* solution, 0 when there is none
mpsolver_objective_value ==
    IF lp_solver.solution = <<>> THEN 0 ELSE lp_solver.solution[1].objective_value

mpsolver_var_value(var_idx) ==
    IF lp_solver.solution = <<>> THEN 0
    ELSE lp_solver.solution[1].values[lp_variables[var_idx + 1] + 1]

----------------------------------------------------------------------------
(* Releasing.  Each *_free is a bare `delete` of the pointer it is given:   *)
(* the wrapper keeps no record of what it released.  A call that is handed  *)
(* a released object has undefined behaviour: `undefined` becomes TRUE and, *)
(* of what the build can then do, the model keeps the outcomes on the       *)
(* objects' lifetimes (the allocator may have given the memory to another   *)
(* object, which the call then hits): any object of the client may come out *)
(* released or not.                                                         *)

Lifetimes(state) == IF state = "none" THEN {"none"} ELSE {"open", "freed"}

UndefinedBehaviour ==
    /\ undefined' = TRUE
    /\ cp_state' \in Lifetimes(cp_state)
    /\ lp_state' \in Lifetimes(lp_state)
    /\ cp_released' \in SUBSET (1..Len(cp_responses))
    /\ UNCHANGED <<cp_builder, cp_vars, cp_returned, cp_responses, cp_other, lp_solver,
                   lp_variables, lp_constraints, lp_returned, lp_requested, norm_all>>

\* ~CpModelBuilder(): the builder and the variable table go
DeleteModel ==
    /\ cp_state' = "freed"
    /\ cp_builder' = EmptyModel
    /\ cp_vars' = <<>>
    /\ UNCHANGED <<cp_returned, cp_responses, cp_released, cp_other, lp_all, norm_all, undefined>>

\* (mutant) results that live inside the builder and go with it
cpmodel_free_with_results ==
    /\ cp_state \in {"open", "freed"}
    /\ IF cp_state = "open"
       THEN /\ cp_state' = "freed"
            /\ cp_builder' = EmptyModel
            /\ cp_vars' = <<>>
            /\ cp_released' = 1..Len(cp_responses)
            /\ UNCHANGED <<cp_returned, cp_responses, cp_other, lp_all, norm_all, undefined>>
       ELSE UndefinedBehaviour

\* (mutant) a release that remembers it and does nothing the second time
cpmodel_free_once ==
    /\ cp_state \in {"open", "freed"}
    /\ IF cp_state = "open" THEN DeleteModel ELSE UNCHANGED vars

\* delete model;
cpmodel_free ==
    /\ cp_state \in {"open", "freed"}
    /\ IF cp_state = "open" THEN DeleteModel ELSE UndefinedBehaviour

\* any other call of the discrete builder API on a released builder
cpmodel_call_released ==
    /\ cp_state = "freed"
    /\ UndefinedBehaviour

\* delete response;
cpresponse_free(i) ==
    /\ i \in 1..Len(cp_responses)
    /\ IF i \notin cp_released
       THEN /\ cp_released' = cp_released \cup {i}
            /\ UNCHANGED <<cp_state, cp_builder, cp_vars, cp_returned, cp_responses,
                           cp_other, lp_all, norm_all, undefined>>
       ELSE UndefinedBehaviour

\* a call of cpresponse_status / _objective_value / _value / _wall_time on
\* result i: reads the result and changes nothing
cpresponse_read(i) ==
    /\ i \in 1..Len(cp_responses)
    /\ IF i \notin cp_released THEN UNCHANGED vars ELSE UndefinedBehaviour

\* ~MpSolver(): the MPSolver (owned through the unique_ptr) and the two
\* pointer tables go
DeleteSolver ==
    /\ lp_state' = "freed"
    /\ lp_solver' = NoSolver
    /\ lp_variables' = <<>>
    /\ lp_constraints' = <<>>
    /\ UNCHANGED <<lp_returned, lp_requested, cp_all, cp_other, norm_all, undefined>>

\* delete solver;
mpsolver_free ==
    /\ lp_state \in {"open", "freed"}
    /\ IF lp_state = "open" THEN DeleteSolver ELSE UndefinedBehaviour

\* any other call of the linear solver API on a released solver
mpsolver_call_released ==
    /\ lp_state = "freed"
    /\ UndefinedBehaviour

----------------------------------------------------------------------------
(* The status normalizers on their own *)

apply_convert_cp_status ==
    /\ status_out.cp = <<>>
    /\ status_out' = [status_out EXCEPT !.cp = <<convert_cp_status(native_in.cp)>>]
    /\ UNCHANGED <<native_in, cp_all, cp_other, lp_all, undefined>>

apply_convert_lp_status ==
    /\ status_out.lp = <<>>
    /\ status_out' = [status_out EXCEPT !.lp = <<convert_lp_status(native_in.lp)>>]
    /\ UNCHANGED <<native_in, cp_all, cp_other, lp_all, undefined>>

NormInit ==
    /\ native_in \in [cp : CpNativeCodes, lp : MpNativeCodes]
    /\ status_out = [cp |-> <<>>, lp |-> <<>>]

NormNext == apply_convert_cp_status \/ apply_convert_lp_status

StatusInit == CpInit /\ LpInit /\ NormInit /\ Defined

SpecStatus == StatusInit /\ [][NormNext]_vars

----------------------------------------------------------------------------
(* Bounds of the exploration *)

MaxVars == 2
MaxCons == 1
MaxSolves == 2

\* all sequences over S of length 1..n
RECURSIVE SeqsUpTo(_, _)
SeqsUpTo(S, n) ==
    IF n = 0 THEN {}
    ELSE LET shorter == SeqsUpTo(S, n - 1)
         IN  {<<x>> : x \in S} \cup shorter
             \cup {Append(s, x) : s \in {t \in shorter : Len(t) = n - 1}, x \in S}

\* (var_indices, coeffs) argument pairs over n issued handles
TermArgs(n, coeffVals, maxTerms) ==
    {[var_indices |-> [i \in 1..Len(s) |-> s[i][1]],
      coeffs      |-> [i \in 1..Len(s) |-> s[i][2]]] :
        s \in SeqsUpTo((0..(n - 1)) \X coeffVals, maxTerms)}

(* The calls a client session makes on its one model, discrete or linear, *)
(* with small arguments: domains [0,1] and the empty [1,0], single terms  *)
(* with coefficient 1, right-hand side 1                                   *)

NoLp == lp_state = "none"
NoCp == cp_state = "none"

CanAddVar == Len(cp_vars) < MaxVars
CanAddCon == Len(cp_builder.constraints) < MaxCons
CanSolve == Len(cp_responses) < MaxSolves

IntVarCalls == IF CanAddVar THEN {<<0, 1>>, <<1, 0>>} ELSE {}
LinearCalls ==
    IF CanAddCon THEN TermArgs(Len(cp_vars), {1}, 1) \X {1} ELSE {}
AllDifferentCalls ==
    IF CanAddCon THEN SeqsUpTo(0..(Len(cp_vars) - 1), 2) ELSE {}
ObjectiveCalls == TermArgs(Len(cp_vars), {1}, 1)
SolveCalls == IF CanSolve THEN TimeLimits ELSE {}

\* linear model: bounds [0,1], coefficients 0 and 1
MaxRows == 2
SolverTypes == {2, 7}
LpCoeffVals == {0, 1}

CanAddLpVar == Len(lp_variables) < MaxVars
LpVarCalls == IF CanAddLpVar THEN {<<0, 1>>} ELSE {}
RowCalls == IF Len(lp_constraints) < MaxRows THEN {<<0, 1>>} ELSE {}
CellCalls ==
    (0..(Len(lp_constraints) - 1)) \X (0..(Len(lp_variables) - 1)) \X LpCoeffVals
ObjCoeffCalls == (0..(Len(lp_variables) - 1)) \X LpCoeffVals

LpNext ==
    \/ \E t \in SolverTypes : mpsolver_new(t)
    \/ \E a \in LpVarCalls : mpsolver_num_var(a[1], a[2])
    \/ \E a \in LpVarCalls : mpsolver_int_var(a[1], a[2])
    \/ (CanAddLpVar /\ mpsolver_bool_var)
    \/ \E a \in RowCalls : mpsolver_add_constraint(a[1], a[2])
    \/ \E a \in CellCalls : mpsolver_set_constraint_coeff(a[1], a[2], a[3])
    \/ \E a \in ObjCoeffCalls : mpsolver_set_objective_coeff(a[1], a[2])
    \/ mpsolver_minimize
    \/ mpsolver_maximize
    \/ mpsolver_solve

Next ==
    \/ (NoLp /\ cpmodel_new)
    \/ \E a \in IntVarCalls : cpmodel_new_int_var(a[1], a[2])
    \/ (CanAddVar /\ cpmodel_new_bool_var)
    \/ \E c \in LinearCalls : cpmodel_add_linear_le(c[1].var_indices, c[1].coeffs, c[2])
    \/ \E c \in LinearCalls : cpmodel_add_linear_ge(c[1].var_indices, c[1].coeffs, c[2])
    \/ \E c \in LinearCalls : cpmodel_add_linear_eq(c[1].var_indices, c[1].coeffs, c[2])
    \/ \E h \in AllDifferentCalls : cpmodel_add_all_different(h)
    \/ \E t \in ObjectiveCalls : cpmodel_minimize(t.var_indices, t.coeffs)
    \/ \E t \in ObjectiveCalls : cpmodel_maximize(t.var_indices, t.coeffs)
    \/ \E t \in SolveCalls : cpmodel_solve(t)
    \/ \E t \in (IF NoCp THEN SolverTypes ELSE {}) : mpsolver_new(t)
    \/ \E a \in LpVarCalls : mpsolver_num_var(a[1], a[2])
    \/ \E a \in LpVarCalls : mpsolver_int_var(a[1], a[2])
    \/ (CanAddLpVar /\ mpsolver_bool_var)
    \/ \E a \in RowCalls : mpsolver_add_constraint(a[1], a[2])
    \/ \E a \in CellCalls : mpsolver_set_constraint_coeff(a[1], a[2], a[3])
    \/ \E a \in ObjCoeffCalls : mpsolver_set_objective_coeff(a[1], a[2])
    \/ mpsolver_minimize
    \/ mpsolver_maximize
    \/ mpsolver_solve

Spec == Init /\ [][Next]_vars
SpecLp == Init /\ [][LpNext]_vars

(* Creating a linear solver of every type, the four of OrtoolsLpSolverType  *)
(* and values on both sides of them, and using it                         *)

BackendTypes == {-1, 0, 1, 2, 3, 4, 7}

BackendNext ==
    \/ \E t \in BackendTypes : mpsolver_new(t)
    \/ \E a \in LpVarCalls : mpsolver_num_var(a[1], a[2])
    \/ \E a \in LpVarCalls : mpsolver_int_var(a[1], a[2])
    \/ (CanAddLpVar /\ mpsolver_bool_var)
    \/ \E a \in ObjCoeffCalls : mpsolver_set_objective_coeff(a[1], a[2])
    \/ mpsolver_maximize
    \/ mpsolver_solve

SpecBackend == Init /\ [][BackendNext]_vars

(* A client with three models at once, two discrete and one linear, whose *)
(* calls interleave in every order.  The first discrete model has boolean *)
(* variables, the second variables fixed to 2, the linear one variables   *)
(* in [0,1]; each is solved at most once                                  *)

MaxOtherVars == 2

Unsolved == cp_responses = <<>>
OtherUnsolved == cp_other.responses = <<>>
LpUnsolved == lp_returned.status = <<>>

OtherVarCalls ==
    IF OtherUnsolved /\ Len(cp_other.vars) < MaxOtherVars THEN {<<2, 2>>} ELSE {}
OtherLinearCalls ==
    IF OtherUnsolved /\ cp_other.builder.constraints = <<>>
    THEN TermArgs(Len(cp_other.vars), {1}, 1) \X {2} ELSE {}
OtherObjectiveCalls ==
    IF OtherUnsolved /\ ~cp_other.builder.objective.set
    THEN TermArgs(Len(cp_other.vars), {1}, 1) ELSE {}
PairObjectiveCalls ==
    IF Unsolved /\ ~cp_builder.objective.set THEN ObjectiveCalls ELSE {}
PairLpVarCalls == IF LpUnsolved THEN LpVarCalls ELSE {}
PairObjCoeffCalls ==
    IF LpUnsolved THEN (0..(Len(lp_variables) - 1)) \X {1} ELSE {}

PairNext ==
    \/ cpmodel_new
    \/ (Unsolved /\ CanAddVar /\ cpmodel_new_bool_var)
    \/ \E t \in PairObjectiveCalls : cpmodel_maximize(t.var_indices, t.coeffs)
    \/ (Unsolved /\ cpmodel_solve(0))
    \/ cpmodel_new_other
    \/ \E a \in OtherVarCalls : cpmodel_new_int_var_other(a[1], a[2])
    \/ \E c \in OtherLinearCalls :
          cpmodel_add_linear_le_other(c[1].var_indices, c[1].coeffs, c[2])
    \/ \E t \in OtherObjectiveCalls : cpmodel_maximize_other(t.var_indices, t.coeffs)
    \/ (OtherUnsolved /\ cpmodel_solve_other(0))
    \/ mpsolver_new(ORTOOLS_LP_GLOP)
    \/ \E a \in PairLpVarCalls : mpsolver_num_var(a[1], a[2])
    \/ \E a \in PairObjCoeffCalls : mpsolver_set_objective_coeff(a[1], a[2])
    \/ (LpUnsolved /\ mpsolver_maximize)
    \/ (LpUnsolved /\ mpsolver_solve)

SpecPair == Init /\ [][PairNext]_vars

(* A client that builds, solves, reads and releases: one discrete model    *)
(* with its results and one linear solver, until a call goes undefined    *)

ResultCalls == 1..Len(cp_responses)
Results == IF Defined THEN ResultCalls ELSE {}

FreeNext ==
    \/ (Defined /\ cpmodel_new)
    \/ (Defined /\ CanAddVar /\ cpmodel_new_bool_var)
    \/ \E t \in (IF Defined THEN ObjectiveCalls ELSE {}) :
          cpmodel_maximize(t.var_indices, t.coeffs)
    \/ (Defined /\ CanSolve /\ cpmodel_solve(0))
    \/ (Defined /\ cpmodel_free)
    \/ (Defined /\ cpmodel_call_released)
    \/ \E i \in Results : cpresponse_free(i)
    \/ \E i \in Results : cpresponse_read(i)
    \/ (Defined /\ mpsolver_new(ORTOOLS_LP_GLOP))
    \/ \E a \in (IF Defined THEN LpVarCalls ELSE {}) : mpsolver_num_var(a[1], a[2])
    \/ (Defined /\ mpsolver_solve)
    \/ (Defined /\ mpsolver_free)
    \/ (Defined /\ mpsolver_call_released)

SpecFree == Init /\ [][FreeNext]_vars

(* Building one discrete model and solving it once, with wider arguments: *)
(* bounds 0 and 2, coefficients 1 and 2, up to two terms                  *)

Building == cp_responses = <<>>
WideTerms == TermArgs(Len(cp_vars), {1, 2}, 2)

WideIntVarCalls == IF Building /\ CanAddVar THEN {0, 2} \X {0, 2} ELSE {}
WideRhs == {2}
WideLinearCalls == IF Building /\ CanAddCon THEN WideTerms \X WideRhs ELSE {}
WideAllDifferentCalls == IF Building THEN AllDifferentCalls ELSE {}
WideObjectiveCalls == IF Building /\ ~cp_builder.objective.set THEN WideTerms ELSE {}
WideSolveCalls == IF Building THEN TimeLimits ELSE {}

SolveNext ==
    \/ cpmodel_new
    \/ \E a \in WideIntVarCalls : cpmodel_new_int_var(a[1], a[2])
    \/ (Building /\ CanAddVar /\ cpmodel_new_bool_var)
    \/ \E c \in WideLinearCalls : cpmodel_add_linear_le(c[1].var_indices, c[1].coeffs, c[2])
    \/ \E c \in WideLinearCalls : cpmodel_add_linear_ge(c[1].var_indices, c[1].coeffs, c[2])
    \/ \E c \in WideLinearCalls : cpmodel_add_linear_eq(c[1].var_indices, c[1].coeffs, c[2])
    \/ \E h \in WideAllDifferentCalls : cpmodel_add_all_different(h)
    \/ \E t \in WideObjectiveCalls : cpmodel_minimize(t.var_indices, t.coeffs)
    \/ \E t \in WideObjectiveCalls : cpmodel_maximize(t.var_indices, t.coeffs)
    \/ \E t \in WideSolveCalls : cpmodel_solve(t)

SpecSolve == Init /\ [][SolveNext]_vars

----------------------------------------------------------------------------
(* Properties *)

Last(seq) == seq[Len(seq)]

\* C1: the n-th variable-creating call on a model returns handle n-1, the n-th
\* mpsolver_add_constraint returns row handle n-1 (so no handle is returned
\* twice), and the next handle to be issued always equals the number of
\* creating calls made: no other operation moves it.
C1_HandlesSequential ==
    /\ \A n \in 1..Len(cp_returned) : cp_returned[n].idx = n - 1
    /\ \A n \in 1..Len(lp_returned.vars) : lp_returned.vars[n] = n - 1
    /\ \A n \in 1..Len(lp_returned.cons) : lp_returned.cons[n] = n - 1
    /\ Len(cp_vars) = Len(cp_returned)
    /\ Len(lp_variables) = Len(lp_returned.vars)
    /\ Len(lp_constraints) = Len(lp_returned.cons)

C1_Witness ==
    /\ lp_returned.vars = <<0, 1>>
    /\ lp_returned.cons = <<0, 1>>
    /\ lp_returned.status # <<>>
    /\ \E v \in DOMAIN lp_solver.objective.coeffs : lp_solver.objective.coeffs[v] # 0

\* C2: a result returned by cpmodel_solve never changes afterwards: whatever the
\* step (builder calls, another solve), every result that existed before it
\* reports the same status, objective value, values and wall time after it, and
\* results are only ever added.
C2_ResultsImmutable ==
    [][/\ Len(cp_responses') >= Len(cp_responses)
       /\ \A i \in 1..Len(cp_responses) :
             /\ cpresponse_status(cp_responses'[i]) = cpresponse_status(cp_responses[i])
             /\ cpresponse_objective_value(cp_responses'[i])
                    = cpresponse_objective_value(cp_responses[i])
             /\ cpresponse_wall_time(cp_responses'[i]) = cpresponse_wall_time(cp_responses[i])
             /\ cp_responses'[i].response.solution = cp_responses[i].response.solution
             /\ cp_responses'[i].model = cp_responses[i].model]_vars

C2_Witness ==
    /\ Len(cp_responses) = 2
    /\ cpresponse_status(cp_responses[1]) = ORTOOLS_STATUS_OPTIMAL
    /\ cpresponse_status(cp_responses[2]) = ORTOOLS_STATUS_OPTIMAL
    /\ cpresponse_objective_value(cp_responses[1]) # cpresponse_objective_value(cp_responses[2])
    /\ cpresponse_wall_time(cp_responses[1]) # cpresponse_wall_time(cp_responses[2])
    /\ cp_builder # cp_responses[2].model

\* C3: a cpmodel_solve step leaves the builder as it was (variables, constraints,
\* objective, handle table) and open, and once results exist every builder call
\* and another solve are still enabled.
SolveStep == Len(cp_responses') = Len(cp_responses) + 1

StillAccepted ==
    /\ ENABLED cpmodel_new_int_var(0, 1)
    /\ ENABLED cpmodel_new_bool_var
    /\ ENABLED cpmodel_solve(0)
    /\ cp_vars # <<>> =>
          /\ ENABLED cpmodel_add_linear_le(<<0>>, <<1>>, 1)
          /\ ENABLED cpmodel_add_linear_ge(<<0>>, <<1>>, 1)
          /\ ENABLED cpmodel_add_linear_eq(<<0>>, <<1>>, 1)
          /\ ENABLED cpmodel_add_all_different(<<0>>)
          /\ ENABLED cpmodel_minimize(<<0>>, <<1>>)
          /\ ENABLED cpmodel_maximize(<<0>>, <<1>>)

C3_SolveKeepsBuilderOpen ==
    /\ [][SolveStep => /\ cp_builder' = cp_builder
                       /\ cp_vars' = cp_vars
                       /\ cp_state = "open"
                       /\ cp_state' = "open"]_vars
    /\ [](cp_responses # <<>> => StillAccepted)

C3_Witness ==
    /\ Len(cp_responses) = 2
    /\ cp_state = "open"
    /\ Len(cp_builder.variables) > Len(cp_responses[2].model.variables)
    /\ Len(cp_builder.constraints) > Len(cp_responses[2].model.constraints)

\* C4: the normalizers are total and follow the table: discrete OPTIMAL,
\* FEASIBLE, INFEASIBLE, MODEL_INVALID keep their name and anything else is
\* UNKNOWN; linear OPTIMAL, FEASIBLE, INFEASIBLE, UNBOUNDED keep their name and
\* anything else is ERROR.
SharedStatusNamed(name) ==
    CASE name = "UNKNOWN"       -> ORTOOLS_STATUS_UNKNOWN
      [] name = "OPTIMAL"       -> ORTOOLS_STATUS_OPTIMAL
      [] name = "FEASIBLE"      -> ORTOOLS_STATUS_FEASIBLE
      [] name = "INFEASIBLE"    -> ORTOOLS_STATUS_INFEASIBLE
      [] name = "UNBOUNDED"     -> ORTOOLS_STATUS_UNBOUNDED
      [] name = "MODEL_INVALID" -> ORTOOLS_STATUS_MODEL_INVALID
      [] name = "ERROR"         -> ORTOOLS_STATUS_ERROR

C4_NormalizersTotal ==
    /\ status_out.cp = <<>> => ENABLED apply_convert_cp_status
    /\ status_out.lp = <<>> => ENABLED apply_convert_lp_status
    /\ status_out.cp # <<>> =>
          status_out.cp[1] =
              IF native_in.cp \in {"OPTIMAL", "FEASIBLE", "INFEASIBLE", "MODEL_INVALID"}
              THEN SharedStatusNamed(native_in.cp) ELSE SharedStatusNamed("UNKNOWN")
    /\ status_out.lp # <<>> =>
          status_out.lp[1] =
              IF native_in.lp \in {"OPTIMAL", "FEASIBLE", "INFEASIBLE", "UNBOUNDED"}
              THEN SharedStatusNamed(native_in.lp) ELSE SharedStatusNamed("ERROR")

C4_Witness ==
    /\ native_in = [cp |-> "UNRECOGNIZED", lp |-> "MODEL_INVALID"]
    /\ status_out = [cp |-> <<ORTOOLS_STATUS_UNKNOWN>>, lp |-> <<ORTOOLS_STATUS_ERROR>>]

\* C5: for every native code the discrete normalizer never yields UNBOUNDED or
\* ERROR and the linear one never yields MODEL_INVALID or UNKNOWN; so
\* no discrete result ever reports UNBOUNDED or ERROR, and mpsolver_solve
\* never returns MODEL_INVALID or UNKNOWN: a native invalid-model or not-solved
\* code of the linear engine comes back as ERROR.
C5_StatusesPerEngine ==
    /\ \A c \in CpNativeCodes :
          convert_cp_status(c) \notin {ORTOOLS_STATUS_UNBOUNDED, ORTOOLS_STATUS_ERROR}
    /\ \A c \in MpNativeCodes :
          convert_lp_status(c) \notin {ORTOOLS_STATUS_MODEL_INVALID, ORTOOLS_STATUS_UNKNOWN}
    /\ \A i \in 1..Len(cp_responses) :
          cpresponse_status(cp_responses[i])
              \notin {ORTOOLS_STATUS_UNBOUNDED, ORTOOLS_STATUS_ERROR}
    /\ \A k \in 1..Len(lp_returned.status) :
          /\ lp_returned.status[k] \notin {ORTOOLS_STATUS_MODEL_INVALID, ORTOOLS_STATUS_UNKNOWN}
          /\ lp_solver.result_status \in {"MODEL_INVALID", "NOT_SOLVED"}
                => lp_returned.status[k] = ORTOOLS_STATUS_ERROR

C5_Witness ==
    /\ lp_solver.result_status = "MODEL_INVALID"
    /\ lp_returned.status = <<ORTOOLS_STATUS_ERROR>>

\* C6: the coefficient of variable v in row c is what the last
\* mpsolver_set_constraint_coeff(c, v, .) call gave, 0 before any: a step that is
\* such a call leaves exactly its argument there (not a sum), and every other
\* (row, variable) pair keeps its coefficient; a new row or variable starts at 0.
RowCoeff(sv, rows, variables, c, v) ==
    GetCoefficient(sv.constraints[rows[c + 1] + 1].coeffs, variables[v + 1])

C6_LastCoefficientWins ==
    [][\A c \in 0..(Len(lp_constraints') - 1), v \in 0..(Len(lp_variables') - 1) :
          LET now == RowCoeff(lp_solver', lp_constraints', lp_variables', c, v)
              existed == c < Len(lp_constraints) /\ v < Len(lp_variables)
              before == IF existed
                        THEN RowCoeff(lp_solver, lp_constraints, lp_variables, c, v)
                        ELSE 0
              set == IF existed
                     THEN {k \in LpCoeffVals : mpsolver_set_constraint_coeff(c, v, k)}
                     ELSE {}
          IN  IF set # {} THEN \A k \in set : now = k ELSE now = before]_vars

C6_Witness ==
    /\ Len(lp_constraints) = 2
    /\ Len(lp_variables) = 2
    /\ \E v \in DOMAIN lp_solver.constraints[1].coeffs :
          /\ lp_solver.constraints[1].coeffs[v] = 0
          /\ \E w \in DOMAIN lp_solver.constraints[1].coeffs :
                lp_solver.constraints[1].coeffs[w] = 1
    /\ DOMAIN lp_solver.constraints[2].coeffs = {}

\* C7: the expression a linear constraint or objective call builds from
\* (handles, coeffs) is the sum over positions of coeffs[i] * var[handles[i]]:
\* per handle the coefficients of all its positions add up.  After such a call
\* the new constraint (objective) agrees, on every assignment of the variables,
\* with that sum compared to rhs (with that sum).
RECURSIVE CoeffOfHandle(_, _, _, _)
CoeffOfHandle(var_indices, coeffs, h, i) ==
    IF i > Len(var_indices) THEN 0
    ELSE (IF var_indices[i] = h THEN coeffs[i] ELSE 0)
         + CoeffOfHandle(var_indices, coeffs, h, i + 1)

\* a[h + 1] is the value of the variable created by the call that returned h
RECURSIVE WeightedSum(_, _, _, _)
WeightedSum(var_indices, coeffs, a, h) ==
    IF h >= Len(a) THEN 0
    ELSE CoeffOfHandle(var_indices, coeffs, h, 1) * a[h + 1]
         + WeightedSum(var_indices, coeffs, a, h + 1)

C7_RepeatedHandlesAdd ==
    [][\A t \in (IF cp_vars' = cp_vars /\ cp_responses' = cp_responses
                 THEN WideTerms ELSE {}) :
          LET sum(a) == WeightedSum(t.var_indices, t.coeffs, a, 0)
              all == Assignments(cp_builder')
              added == Last(cp_builder'.constraints)
          IN  /\ \A rhs \in WideRhs :
                    /\ cpmodel_add_linear_le(t.var_indices, t.coeffs, rhs)
                          => \A a \in all : Satisfies(added, a) <=> sum(a) <= rhs
                    /\ cpmodel_add_linear_ge(t.var_indices, t.coeffs, rhs)
                          => \A a \in all : Satisfies(added, a) <=> sum(a) >= rhs
                    /\ cpmodel_add_linear_eq(t.var_indices, t.coeffs, rhs)
                          => \A a \in all : Satisfies(added, a) <=> sum(a) = rhs
              /\ cpmodel_minimize(t.var_indices, t.coeffs)
                    => \A a \in all : ObjectiveOf(cp_builder', a) = sum(a)
              /\ cpmodel_maximize(t.var_indices, t.coeffs)
                    => \A a \in all : ObjectiveOf(cp_builder', a) = sum(a)]_vars

\* 1*x + 2*x <= 2 over x in [0,2], maximize x: solved to x = 0
C7_Witness ==
    /\ Len(cp_responses) = 1
    /\ cpresponse_status(cp_responses[1]) = ORTOOLS_STATUS_OPTIMAL
    /\ cp_returned = <<[idx |-> 0, lb |-> 0, ub |-> 2]>>
    /\ cp_builder.constraints =
          <<[kind |-> "le", expr |-> [vars |-> <<0, 0>>, coeffs |-> <<1, 2>>], rhs |-> 2]>>
    /\ cp_builder.objective.maximize
    /\ cpresponse_value(cp_responses[1], 0) = 0

\* C8: a discrete model has one objective, that of the last cpmodel_minimize /
\* cpmodel_maximize call: after such a call the objective is exactly the call's
\* weighted sum and direction (nothing of an earlier objective is left), and a
\* solve compiles that objective and an OPTIMAL result's objective value is the
\* best value of it over the feasible assignments.
C8_LastObjectiveWins ==
    [][/\ \A t \in (IF cp_builder'.objective # cp_builder.objective
                    THEN TermArgs(Len(cp_vars), {1}, 1) ELSE {}) :
             LET sum(a) == WeightedSum(t.var_indices, t.coeffs, a, 0)
                 all == Assignments(cp_builder')
             IN  /\ cpmodel_minimize(t.var_indices, t.coeffs)
                       => /\ cp_builder'.objective.set
                          /\ ~cp_builder'.objective.maximize
                          /\ \A a \in all : ExprValue(cp_builder'.objective.expr, a) = sum(a)
                 /\ cpmodel_maximize(t.var_indices, t.coeffs)
                       => /\ cp_builder'.objective.set
                          /\ cp_builder'.objective.maximize
                          /\ \A a \in all : ExprValue(cp_builder'.objective.expr, a) = sum(a)
       /\ SolveStep =>
             LET r == Last(cp_responses')
                 obj == cp_builder.objective
             IN  /\ r.model.objective = obj
                 /\ (obj.set /\ cpresponse_status(r) = ORTOOLS_STATUS_OPTIMAL) =>
                       \A a \in Feasible(r.model) :
                           IF obj.maximize
                           THEN cpresponse_objective_value(r) >= ExprValue(obj.expr, a)
                           ELSE cpresponse_objective_value(r) <= ExprValue(obj.expr, a)]_vars

\* minimize solved to 0, then the objective replaced by a maximize, solved to 1
C8_Witness ==
    /\ Len(cp_responses) = 2
    /\ cp_responses[1].model.objective.set
    /\ ~cp_responses[1].model.objective.maximize
    /\ cp_responses[2].model.objective.set
    /\ cp_responses[2].model.objective.maximize
    /\ cp_responses[2].model.objective.expr # cp_responses[1].model.objective.expr
    /\ cpresponse_status(cp_responses[1]) = ORTOOLS_STATUS_OPTIMAL
    /\ cpresponse_status(cp_responses[2]) = ORTOOLS_STATUS_OPTIMAL
    /\ cpresponse_objective_value(cp_responses[1]) = 0
    /\ cpresponse_objective_value(cp_responses[2]) = 1

\* C9: in every OPTIMAL or FEASIBLE result, every handle issued before that
\* solve with lb <= ub has its value within [lb, ub] (within {0,1} for a
\* boolean variable).
HasSolution(r) ==
    cpresponse_status(r) \in {ORTOOLS_STATUS_OPTIMAL, ORTOOLS_STATUS_FEASIBLE}

C9_ValuesWithinBounds ==
    \A i \in 1..Len(cp_responses) :
        LET r == cp_responses[i]
        IN  HasSolution(r) =>
                \A n \in 1..Len(r.model.variables) :
                    cp_returned[n].lb <= cp_returned[n].ub =>
                        cpresponse_value(r, cp_returned[n].idx)
                            \in cp_returned[n].lb .. cp_returned[n].ub

C9_Witness ==
    /\ Len(cp_responses) = 1
    /\ cpresponse_status(cp_responses[1]) = ORTOOLS_STATUS_OPTIMAL
    /\ cp_returned = <<[idx |-> 0, lb |-> 2, ub |-> 2], [idx |-> 1, lb |-> 0, ub |-> 1]>>
    /\ cp_builder.objective.set
    /\ ~cp_builder.objective.maximize
    /\ cpresponse_value(cp_responses[1], 0) = 2
    /\ cpresponse_value(cp_responses[1], 1) = 1

\* C10 (as claimed): with a minimize objective, a solve followed by adding one
\* strictly tighter linear constraint and a second solve never yields a smaller
\* objective value the second time (both results carrying a solution).
Tightened(first, second) ==
    /\ first.model.objective.set
    /\ ~first.model.objective.maximize
    /\ second.model.objective = first.model.objective
    /\ second.model.variables = first.model.variables
    /\ Len(second.model.constraints) = Len(first.model.constraints) + 1
    /\ SubSeq(second.model.constraints, 1, Len(first.model.constraints))
          = first.model.constraints
    /\ Last(second.model.constraints).kind \in {"le", "ge", "eq"}
    /\ ModelValid(first.model)
    /\ Feasible(second.model) # Feasible(first.model)

C10_NeverImproves ==
    \A i \in 1..(Len(cp_responses) - 1) :
        (/\ Tightened(cp_responses[i], cp_responses[i + 1])
         /\ HasSolution(cp_responses[i])
         /\ HasSolution(cp_responses[i + 1])) =>
            cpresponse_objective_value(cp_responses[i + 1])
                >= cpresponse_objective_value(cp_responses[i])

\* C10 (amended): the same holds when the first result is OPTIMAL (and the
\* second is OPTIMAL or FEASIBLE); a first result that is only FEASIBLE, as a
\* time limit can leave it, may be bettered by the second solve.
C10_NeverImprovesWhenOptimal ==
    \A i \in 1..(Len(cp_responses) - 1) :
        (/\ Tightened(cp_responses[i], cp_responses[i + 1])
         /\ cpresponse_status(cp_responses[i]) = ORTOOLS_STATUS_OPTIMAL
         /\ HasSolution(cp_responses[i + 1])) =>
            cpresponse_objective_value(cp_responses[i + 1])
                >= cpresponse_objective_value(cp_responses[i])

C10_Witness ==
    /\ Len(cp_responses) = 2
    /\ Tightened(cp_responses[1], cp_responses[2])
    /\ cpresponse_status(cp_responses[1]) = ORTOOLS_STATUS_OPTIMAL
    /\ cpresponse_status(cp_responses[2]) = ORTOOLS_STATUS_OPTIMAL
    /\ cpresponse_objective_value(cp_responses[1]) = 0
    /\ cpresponse_objective_value(cp_responses[2]) = 1

\* C11 (as claimed): the linear accessors report the outcome of the most recent
\* mpsolver_solve after any sequence of build operations: a step that is not a
\* solve changes neither the objective value nor the value of any handle.
ReportedPoint == [p \in 1..Len(lp_variables) |-> mpsolver_var_value(p - 1)]

\* a solve step: of the linear operations only mpsolver_solve changes the
\* result status or leaves the solver with a solution
LpSolveStep ==
    /\ lp_state = "open"
    /\ \/ lp_solver'.result_status # lp_solver.result_status
       \/ lp_solver'.solution # <<>> /\ lp_solver'.solution # lp_solver.solution

C11_ReportsLastSolveAlways ==
    [][(lp_state = "open" /\ ~LpSolveStep) =>
          /\ mpsolver_objective_value' = mpsolver_objective_value
          /\ \A h \in 0..(Len(lp_variables) - 1) :
                mpsolver_var_value(h)' = mpsolver_var_value(h)]_vars

\* C11 (amended): a solve that returns OPTIMAL or FEASIBLE leaves the accessors
\* reporting its own outcome, a best point of the model as it stood at the call
\* and the objective value of that point; a solve with any other status leaves
\* them at 0 (nothing of an earlier solve); and a later build operation changes
\* a reported value to nothing but 0.
C11_ReportsLastSolveWhileUnchanged ==
    [][/\ LpSolveStep =>
             IF lp_returned'.status[1] \in {ORTOOLS_STATUS_OPTIMAL, ORTOOLS_STATUS_FEASIBLE}
             THEN /\ ReportedPoint' \in LpOptimal(lp_solver)
                  /\ mpsolver_objective_value' = LpObjective(lp_solver, ReportedPoint')
             ELSE /\ mpsolver_objective_value' = 0
                  /\ \A h \in 0..(Len(lp_variables) - 1) : mpsolver_var_value(h)' = 0
       /\ (lp_state = "open" /\ ~LpSolveStep) =>
             /\ mpsolver_objective_value' \in {mpsolver_objective_value, 0}
             /\ \A h \in 0..(Len(lp_variables) - 1) :
                   mpsolver_var_value(h)' \in {mpsolver_var_value(h), 0}]_vars

\* maximize x0 + x1 with the row 0 <= x0 + x1 <= 1, solved: objective 1 at (1, 0)
C11_Witness ==
    /\ lp_returned.status = <<ORTOOLS_STATUS_OPTIMAL>>
    /\ Len(lp_variables) = 2
    /\ Len(lp_constraints) = 1
    /\ RowCoeff(lp_solver, lp_constraints, lp_variables, 0, 0) = 1
    /\ RowCoeff(lp_solver, lp_constraints, lp_variables, 0, 1) = 1
    /\ lp_solver.objective.maximize
    /\ mpsolver_objective_value = 1
    /\ mpsolver_var_value(0) = 1
    /\ mpsolver_var_value(1) = 0

\* C12 (as claimed): a model with an all-different constraint over n handles
\* whose variables' domains together hold fewer than n values is reported
\* INFEASIBLE by every solve.
Pigeonholed(m) ==
    \E k \in 1..Len(m.constraints) :
        LET c == m.constraints[k]
            values == UNION {m.variables[c.expr.vars[i] + 1].lb ..
                             m.variables[c.expr.vars[i] + 1].ub : i \in 1..Len(c.expr.vars)}
        IN  c.kind = "all_different" /\ Cardinality(values) < Len(c.expr.vars)

C12_PigeonholeAlwaysInfeasible ==
    \A i \in 1..Len(cp_responses) :
        Pigeonholed(cp_responses[i].model) =>
            cpresponse_status(cp_responses[i]) = ORTOOLS_STATUS_INFEASIBLE

\* C12 (amended): such a model is never reported OPTIMAL or FEASIBLE; a solve
\* without time limit reports INFEASIBLE when every variable has a value to
\* take (lb <= ub) and MODEL_INVALID otherwise; under a time limit UNKNOWN is
\* possible as well.
C12_PigeonholeNeverSolved ==
    [][(SolveStep /\ Pigeonholed(cp_builder)) =>
          LET status == cpresponse_status(Last(cp_responses'))
              unlimited == \E t \in TimeLimits : ~TimeLimited(t) /\ cpmodel_solve(t)
          IN  /\ status \in {ORTOOLS_STATUS_INFEASIBLE, ORTOOLS_STATUS_UNKNOWN,
                             ORTOOLS_STATUS_MODEL_INVALID}
              /\ unlimited => status = IF ModelValid(cp_builder)
                                       THEN ORTOOLS_STATUS_INFEASIBLE
                                       ELSE ORTOOLS_STATUS_MODEL_INVALID
              /\ status = ORTOOLS_STATUS_MODEL_INVALID => ~ModelValid(cp_builder)]_vars

\* two variables fixed to 0, all-different over both, solved: INFEASIBLE
C12_Witness ==
    /\ Len(cp_responses) = 1
    /\ cp_returned = <<[idx |-> 0, lb |-> 0, ub |-> 0], [idx |-> 1, lb |-> 0, ub |-> 0]>>
    /\ \E k \in 1..Len(cp_builder.constraints) :
          /\ cp_builder.constraints[k].kind = "all_different"
          /\ cp_builder.constraints[k].expr.vars = <<0, 1>>
    /\ Pigeonholed(cp_responses[1].model)
    /\ cpresponse_status(cp_responses[1]) = ORTOOLS_STATUS_INFEASIBLE

\* C13: one boolean variable x, the constraint x >= 1 and the objective
\* maximize x solve (without time limit) to OPTIMAL with objective value 1 and
\* value(x) = 1; and every OPTIMAL result reports values within the domains
\* that satisfy every constraint of the model solved, with an objective value
\* that is theirs and the best over all such assignments.
ScenarioA(b) ==
    /\ cp_returned = <<[idx |-> 0, lb |-> 0, ub |-> 1]>>
    /\ b.variables = <<[lb |-> 0, ub |-> 1]>>
    /\ b.constraints = <<[kind |-> "ge", expr |-> [vars |-> <<0>>, coeffs |-> <<1>>],
                          rhs |-> 1]>>
    /\ b.objective = [set |-> TRUE, maximize |-> TRUE,
                      expr |-> [vars |-> <<0>>, coeffs |-> <<1>>]]

\* the values a result reports for the handles issued before its solve
ReportedValues(r) ==
    [n \in 1..Len(r.model.variables) |-> cpresponse_value(r, cp_returned[n].idx)]

Admissible(m, a) ==
    /\ \A n \in 1..Len(m.variables) : a[n] \in cp_returned[n].lb .. cp_returned[n].ub
    /\ \A k \in 1..Len(m.constraints) : Satisfies(m.constraints[k], a)

ObjCoeff(sv, variables, v) == GetCoefficient(sv.objective.coeffs, variables[v + 1])

LpModelOf(sv) ==
    [variables |-> sv.variables, constraints |-> sv.constraints,
     maximize |-> sv.objective.maximize,
     coeffs |-> [p \in 1..Len(sv.variables) |-> GetCoefficient(sv.objective.coeffs, p - 1)]]

C15_ObjectiveFrame ==
    /\ [][/\ (mpsolver_minimize \/ mpsolver_maximize) =>
                /\ lp_solver'.objective.maximize = mpsolver_maximize
                /\ \A v \in 0..(Len(lp_variables) - 1) :
                      ObjCoeff(lp_solver', lp_variables', v) = ObjCoeff(lp_solver, lp_variables, v)
                /\ lp_solver'.variables = lp_solver.variables
                /\ lp_solver'.constraints = lp_solver.constraints
          /\ \A v \in 0..(Len(lp_variables) - 1), c \in LpCoeffVals :
                mpsolver_set_objective_coeff(v, c) =>
                   /\ ObjCoeff(lp_solver', lp_variables', v) = c
                   /\ \A w \in 0..(Len(lp_variables) - 1) :
                         w # v => ObjCoeff(lp_solver', lp_variables', w)
                                     = ObjCoeff(lp_solver, lp_variables, w)
                   /\ lp_solver'.objective.maximize = lp_solver.objective.maximize
                   /\ lp_solver'.variables = lp_solver.variables
                   /\ lp_solver'.constraints = lp_solver.constraints]_vars
    /\ [](\A v \in 0..(Len(lp_variables) - 1), c \in LpCoeffVals, d \in BOOLEAN :
             LpModelOf(SetOptimizationDirection(
                          SetObjectiveCoefficient(lp_solver, lp_variables[v + 1], c), d))
                = LpModelOf(SetObjectiveCoefficient(
                               SetOptimizationDirection(lp_solver, d), lp_variables[v + 1], c)))

\* x1's coefficient set to 1 and then to 0, x0's left at 1, maximize: solved to 1
C15_Witness ==
    /\ Len(lp_variables) = 2
    /\ lp_solver.objective.maximize
    /\ ObjCoeff(lp_solver, lp_variables, 0) = 1
    /\ lp_variables[2] \in DOMAIN lp_solver.objective.coeffs
    /\ ObjCoeff(lp_solver, lp_variables, 1) = 0
    /\ lp_returned.status = <<ORTOOLS_STATUS_OPTIMAL>>
    /\ mpsolver_objective_value = 1

\* C16: cpmodel_solve(time_limit_seconds) hands a time limit to the engine
\* exactly when time_limit_seconds > 0: a solve with zero or a negative limit
\* ends only with the engine's unlimited outcomes (never UNKNOWN, never a
\* FEASIBLE that is not proved optimal), and the limited outcomes are possible
\* exactly for a positive limit (looked at for every model before its first
\* solve; a solve does not change the model).
Outcome(r) == [status |-> r.response.status,
               objective_value |-> r.response.objective_value,
               solution |-> r.response.solution]

CanEndUnknown(t) ==
    \E r \in NewResponse(cp_builder, TimeLimited(t)) : r.response.status = "UNKNOWN"

C16_LimitIffPositive ==
    /\ [][SolveStep =>
             \A t \in TimeLimits :
                (t <= 0 /\ cpmodel_solve(t)) =>
                   Outcome(Last(cp_responses')) \in SolveWithParameters(cp_builder, FALSE)]_vars
    /\ []((cp_state = "open" /\ cp_responses = <<>>) =>
             \A t \in TimeLimits :
                CanEndUnknown(t) <=> (t > 0 /\ ModelValid(cp_builder)))

\* the same model solved twice: once cut short by the limit, once to optimality
C16_Witness ==
    /\ Len(cp_responses) = 2
    /\ cp_responses[1].model = cp_responses[2].model
    /\ cp_responses[1].model.objective.set
    /\ cpresponse_status(cp_responses[1]) = ORTOOLS_STATUS_UNKNOWN
    /\ cpresponse_status(cp_responses[2]) = ORTOOLS_STATUS_OPTIMAL
    /\ ENABLED cpmodel_solve(0)
    /\ ~CanEndUnknown(0) /\ ~CanEndUnknown(-1) /\ CanEndUnknown(1)

\* C19: the handle returned for a discrete variable is the variable's position
\* in the compiled model, whatever mix of cpmodel_new_int_var and
\* cpmodel_new_bool_var calls, constraint calls and objective calls built it;
\* so in every result cpresponse_value(h), which indexes the solution by h
\* itself, gives the value of the variable that was declared with handle h:
\* the model position h holds that variable's domain, and the value is the
\* one found through the builder's variable table.
C19_HandleIsPosition ==
    /\ \A n \in 1..Len(cp_returned) :
          LET h == cp_returned[n].idx
          IN  /\ cp_vars[h + 1] = h
              /\ cp_builder.variables[h + 1] = [lb |-> cp_returned[n].lb, ub |-> cp_returned[n].ub]
    /\ \A i \in 1..Len(cp_responses) :
          LET r == cp_responses[i]
          IN  \A n \in 1..Len(r.model.variables) :
                 LET h == cp_returned[n].idx
                 IN  /\ r.model.variables[h + 1]
                           = [lb |-> cp_returned[n].lb, ub |-> cp_returned[n].ub]
                     /\ HasSolution(r) =>
                           cpresponse_value(r, h) = r.response.solution[cp_vars[n] + 1]

\* a boolean variable, a constraint, then an integer variable fixed to 2
C19_Witness ==
    /\ cp_returned = <<[idx |-> 0, lb |-> 0, ub |-> 1], [idx |-> 1, lb |-> 2, ub |-> 2]>>
    /\ Len(cp_builder.constraints) = 1
    /\ cp_builder.objective.set
    /\ Len(cp_responses) = 1
    /\ HasSolution(cp_responses[1])
    /\ cpresponse_value(cp_responses[1], 0) = 0
    /\ cpresponse_value(cp_responses[1], 1) = 2

\* C17: mpsolver_new(solver_type) always succeeds; the solver it creates uses
\* GLOP for ORTOOLS_LP_GLOP, CLP for ORTOOLS_LP_CLP, CBC for ORTOOLS_MIP_CBC,
\* SCIP for ORTOOLS_MIP_SCIP, and GLOP for every other value.
Recognized == {ORTOOLS_LP_GLOP, ORTOOLS_LP_CLP, ORTOOLS_MIP_CBC, ORTOOLS_MIP_SCIP}

BackendOf == [t \in Recognized |->
                 IF t = ORTOOLS_LP_GLOP THEN "GLOP_LINEAR_PROGRAMMING"
                 ELSE IF t = ORTOOLS_LP_CLP THEN "CLP_LINEAR_PROGRAMMING"
                 ELSE IF t = ORTOOLS_MIP_CBC THEN "CBC_MIXED_INTEGER_PROGRAMMING"
                 ELSE "SCIP_MIXED_INTEGER_PROGRAMMING"]

C17_BackendSelected ==
    /\ lp_state = "none" => \A t \in BackendTypes : ENABLED mpsolver_new(t)
    /\ lp_requested # <<>> =>
          /\ lp_state = "open"
          /\ lp_solver.problem_type = IF lp_requested[1] \in Recognized
                                      THEN BackendOf[lp_requested[1]]
                                      ELSE "GLOP_LINEAR_PROGRAMMING"

\* a solver asked for with type 7: it runs on GLOP and has solved a model
C17_Witness ==
    /\ lp_requested = <<7>>
    /\ lp_solver.problem_type = "GLOP_LINEAR_PROGRAMMING"
    /\ Len(lp_variables) = 2
    /\ lp_returned.status = <<ORTOOLS_STATUS_OPTIMAL>>
    /\ mpsolver_objective_value = 1

\* C18: the release functions check nothing and remember nothing: the first
\* release of a builder, a result or a solver is defined and leaves it
\* released; every later call on it (a second release, any accessor or
\* mutator) is undefined behaviour, never a step that is sure to do nothing
\* or to report an error.
CanGoUndefined(i) ==
    /\ ENABLED (cpresponse_free(i) /\ undefined')
    /\ ENABLED (cpresponse_read(i) /\ undefined')

C18_ReleasedIsUndefined ==
    /\ [](Defined =>
            /\ cp_state = "freed" => /\ ENABLED (cpmodel_free /\ undefined')
                                     /\ ENABLED (cpmodel_call_released /\ undefined')
            /\ lp_state = "freed" => /\ ENABLED (mpsolver_free /\ undefined')
                                     /\ ENABLED (mpsolver_call_released /\ undefined')
            /\ \A i \in cp_released : CanGoUndefined(i))
    /\ [][Defined =>
            /\ (cp_state = "freed" /\ (cpmodel_free \/ cpmodel_call_released)) => undefined'
            /\ (lp_state = "freed" /\ (mpsolver_free \/ mpsolver_call_released)) => undefined'
            /\ (cp_state = "open" /\ cpmodel_free) => (cp_state' = "freed" /\ ~undefined')
            /\ (lp_state = "open" /\ mpsolver_free) => (lp_state' = "freed" /\ ~undefined')
            /\ \A i \in ResultCalls :
                  /\ (i \in cp_released /\ (cpresponse_free(i) \/ cpresponse_read(i)))
                        => undefined'
                  /\ (i \notin cp_released /\ cpresponse_free(i))
                        => (i \in cp_released' /\ ~undefined')]_vars

\* a builder, a result and a solver have been released, and a further call on
\* one of them has been made
C18_Witness ==
    /\ undefined
    /\ Len(cp_responses) = 2
    /\ lp_returned.status # <<>>

\* C20: a discrete result holds its own copy of the compiled model and shares
\* nothing with the builder: releasing the builder leaves every result as it
\* was (same status, objective value, values, wall time, same compiled model)
\* and still readable; releasing one result leaves the builder and every
\* other result as they were; reading a result that was not released is
\* defined whatever has been released around it.
Reading(r) ==
    [status |-> cpresponse_status(r),
     objective_value |-> cpresponse_objective_value(r),
     values |-> [h \in 0..(Len(r.response.solution) - 1) |-> cpresponse_value(r, h)],
     wall_time |-> cpresponse_wall_time(r)]

Readable(i) == ~ENABLED (cpresponse_read(i) /\ undefined')

C20_ResultOwnsItsModel ==
    /\ [][Defined =>
            /\ (cp_state = "open" /\ cpmodel_free) =>
                  /\ ~undefined'
                  /\ cp_released' = cp_released
                  /\ Len(cp_responses') = Len(cp_responses)
                  /\ \A i \in ResultCalls :
                        /\ Reading(cp_responses'[i]) = Reading(cp_responses[i])
                        /\ cp_responses'[i].model = cp_responses[i].model
            /\ \A i \in ResultCalls \ cp_released :
                  cpresponse_free(i) =>
                     /\ ~undefined'
                     /\ cp_released' = cp_released \cup {i}
                     /\ cp_responses' = cp_responses
                     /\ <<cp_state, cp_builder, cp_vars>>' = <<cp_state, cp_builder, cp_vars>>]_vars
    /\ [](Defined => \A i \in ResultCalls \ cp_released : Readable(i))

\* the builder and the first result released, the second result still read:
\* optimal with objective value 1
C20_Witness ==
    /\ Defined
    /\ cp_state = "freed"
    /\ Len(cp_responses) = 2
    /\ cp_released = {1}
    /\ Reading(cp_responses[2]).status = ORTOOLS_STATUS_OPTIMAL
    /\ Reading(cp_responses[2]).objective_value = 1
    /\ Reading(cp_responses[2]).values = [h \in 0..1 |-> 1]
    /\ Readable(2)

\* C14: models are independent.  With two discrete models and a linear one
\* operated in every interleaving, each step changes one model and leaves the
\* variable lists, handles, constraints, objectives and results of the two
\* others as they were; and each model gets what it gets when run alone: its
\* n-th variable has handle n-1 and is the n-th variable of its own builder,
\* and each solve answers for the model's own variables, constraints and
\* objective (an optimum of exactly that model).
OwnHandles(returned, builder, table) ==
    /\ Len(builder.variables) = Len(returned)
    /\ Len(table) = Len(returned)
    /\ \A n \in 1..Len(returned) :
          /\ returned[n].idx = n - 1
          /\ table[n] = n - 1
          /\ builder.variables[n] = [lb |-> returned[n].lb, ub |-> returned[n].ub]

OwnAnswer(responses, builder) ==
    /\ Last(responses).model = builder
    /\ Outcome(Last(responses)) \in SolveWithParameters(builder, FALSE)

C14_ModelsIndependent ==
    /\ [][/\ cp_all' # cp_all => (cp_other' = cp_other /\ lp_all' = lp_all)
          /\ cp_other' # cp_other => (cp_all' = cp_all /\ lp_all' = lp_all)
          /\ lp_all' # lp_all => (cp_all' = cp_all /\ cp_other' = cp_other)
          /\ cp_responses' # cp_responses => OwnAnswer(cp_responses', cp_builder)
          /\ cp_other'.responses # cp_other.responses =>
                OwnAnswer(cp_other'.responses, cp_other.builder)
          /\ (LpSolveStep /\ lp_returned'.status = <<ORTOOLS_STATUS_OPTIMAL>>) =>
                /\ ReportedPoint' \in LpOptimal(lp_solver)
                /\ mpsolver_objective_value' = LpObjective(lp_solver, ReportedPoint')]_vars
    /\ [](/\ OwnHandles(cp_returned, cp_builder, cp_vars)
          /\ OwnHandles(cp_other.returned, cp_other.builder, cp_other.vars)
          /\ lp_returned.vars = [n \in 1..Len(lp_variables) |-> n - 1]
          /\ Len(lp_solver.variables) = Len(lp_variables))

\* three models built and solved side by side: each issued handles 0 and 1,
\* and each reports the optimum of its own objective
C14_Witness ==
    /\ Len(cp_returned) = 2 /\ Len(cp_other.returned) = 2 /\ lp_returned.vars = <<0, 1>>
    /\ Len(cp_responses) = 1 /\ Len(cp_other.responses) = 1
    /\ cpresponse_status(cp_responses[1]) = ORTOOLS_STATUS_OPTIMAL
    /\ cpresponse_objective_value(cp_responses[1]) = 1
    /\ cpresponse_status(cp_other.responses[1]) = ORTOOLS_STATUS_OPTIMAL
    /\ cpresponse_objective_value(cp_other.responses[1]) = 2
    /\ cpresponse_value(cp_other.responses[1], 1) = 2
    /\ lp_returned.status = <<ORTOOLS_STATUS_OPTIMAL>>
    /\ mpsolver_objective_value = 2

====
